---- MODULE Spec2Model ----
(***************************************************************************)
(* Model of the request handler identify_plant of server/main.py: one      *)
(* request from the moment the handler is entered until it returns a       *)
(* response or an exception leaves it.                                     *)
(*                                                                         *)
(* Python's None is the record [isNone |-> TRUE]; a present value v is     *)
(* [isNone |-> FALSE, v |-> v].  Bytes are numbers 0..255, texts are       *)
(* sequences of one-character strings, confidences are hundredths.        *)
(***************************************************************************)
EXTENDS Integers, Sequences, FiniteSets

VARIABLES
    images,         \* the uploaded files: filename and the bytes of the upload
    organs,         \* the organs form field: None or a sequence of tags
    OPENAI_KEY,     \* the environment's OPENAI_API_KEY: None or a string
    filePos,        \* read position of each upload's stream
    pc,             \* position of the handler
    idx,            \* loop counter of the payload loop
    files,          \* the multi-part payload for PlantNet
    r,              \* HTTP status of PlantNet's answer, once there is one
    plantnet_json,  \* the decoded PlantNet answer
    best, confidence, species,
    boost_captions, status,
    capIdx,         \* number of images the captioning loop has finished
    sent,           \* requests handed to the captioning service, in order
    calls,          \* outbound operations of the request, in order
    failure,        \* the exception that left the handler, if any
    response        \* what the handler returned

vars == <<images, organs, OPENAI_KEY, filePos, pc, idx, files, r, plantnet_json,
          best, confidence, species, boost_captions, status, capIdx, sent,
          calls, failure, response>>

\* ---- bounds ------------------------------------------------------------
MaxImages == 2
MaxOrgans == 2

\* ---- Python values -----------------------------------------------------
None == [isNone |-> TRUE]
Some(x) == [isNone |-> FALSE, v |-> x]

\* Truthiness of an optional string or sequence: None and the empty value
\* are false.
Truthy(o) == (~o.isNone) /\ Len(o.v) > 0

SeqsUpTo(S, lo, hi) == UNION {[1..n -> S] : n \in lo..hi}

\* ---- inputs ------------------------------------------------------------
\* images: list[UploadFile] = File(...) is a required field: the handler is
\* entered with at least one upload.
MinImages == 1
OrganTags == {"leaf", "flower"}
KeyValues == {None, Some(<<>>), Some(<<"s", "k">>)}

\* Uploads: two share a filename, the contents have the three lengths
\* modulo 3 that base64 treats differently.
UploadFiles ==
    { [filename |-> "a.jpg", content |-> <<77>>],
      [filename |-> "b.jpg", content |-> <<77, 97>>],
      [filename |-> "a.jpg", content |-> <<77, 97, 110>>] }

\* ---- streams -----------------------------------------------------------
\* read() of a stream at position p: the bytes from p to the end.
ReadFrom(content, p) == SubSeq(content, p + 1, Len(content))

\* ---- base64.b64encode / the service's decoding ---------------------------
B64Alphabet ==
    <<"A","B","C","D","E","F","G","H","I","J","K","L","M",
      "N","O","P","Q","R","S","T","U","V","W","X","Y","Z",
      "a","b","c","d","e","f","g","h","i","j","k","l","m",
      "n","o","p","q","r","s","t","u","v","w","x","y","z",
      "0","1","2","3","4","5","6","7","8","9","+","/">>

B64Char(n) == B64Alphabet[n + 1]

RECURSIVE b64encode(_)
b64encode(bytes) ==
    IF Len(bytes) = 0 THEN <<>>
    ELSE IF Len(bytes) = 1 THEN
        <<B64Char(bytes[1] \div 4), B64Char((bytes[1] % 4) * 16), "=", "=">>
    ELSE IF Len(bytes) = 2 THEN
        <<B64Char(bytes[1] \div 4),
          B64Char((bytes[1] % 4) * 16 + bytes[2] \div 16),
          B64Char((bytes[2] % 16) * 4), "=">>
    ELSE
        <<B64Char(bytes[1] \div 4),
          B64Char((bytes[1] % 4) * 16 + bytes[2] \div 16),
          B64Char((bytes[2] % 16) * 4 + bytes[3] \div 64),
          B64Char(bytes[3] % 64)>>
        \o b64encode(SubSeq(bytes, 4, Len(bytes)))

DataUri(raw) == [prefix |-> "data:image/jpeg;base64,", b64 |-> b64encode(raw)]

\* ---- str.strip ---------------------------------------------------------
RECURSIVE LStrip(_)
LStrip(t) == IF Len(t) > 0 /\ t[1] = " " THEN LStrip(Tail(t)) ELSE t

RECURSIVE RStrip(_)
RStrip(t) ==
    IF Len(t) > 0 /\ t[Len(t)] = " " THEN RStrip(SubSeq(t, 1, Len(t) - 1)) ELSE t

Strip(t) == RStrip(LStrip(t))

\* ---- the collaborators' answers -----------------------------------------
\* raise_for_status raises for every status that is not a success.
ErrorStatuses == {403, 500}

Candidate(score, name) == [score |-> score, name |-> name]

\* Decoded answers of PlantNet: the results key missing, an empty list, and
\* lists whose first element carries (or lacks) a score and a species name.
PlantNetAnswers ==
    { [results |-> None],
      [results |-> Some(<<>>)],
      [results |-> Some(<<Candidate(Some(92), Some("Rosa damascena"))>>)],
      [results |-> Some(<<Candidate(Some(80), Some("Rosa damascena"))>>)],
      [results |-> Some(<<Candidate(Some(40), Some("Rosa damascena")),
                          Candidate(Some(30), Some("Rosa canina"))>>)],
      [results |-> Some(<<Candidate(None, None)>>)] }

\* message.content of the captioning answer: None or a text.
CaptionContents == {None, Some(<<" ", "r", " ">>), Some(<<"f">>)}

NoCaption == <<"No caption returned">>

\* ---- helpers of the handler ---------------------------------------------
\* Image.open(...).convert("RGB"), thumbnail((1280, 1280)) and
\* save(format="JPEG", quality=90): a new buffer, rewound, derived from raw.
NormalizedBuf(raw) == [format |-> "JPEG", quality |-> 90, box |-> 1280, of |-> raw]

ImagePart(image, raw) ==
    [field |-> "images", filename |-> image.filename,
     buf |-> NormalizedBuf(raw), ctype |-> "image/jpeg"]

\* Variant: every image gets the first tag.
OrganParts_FirstTag(org, i) ==
    IF Truthy(org) /\ i < Len(org.v)
    THEN <<[field |-> "organs", value |-> org.v[1]]>>
    ELSE <<>>

\* if organs and idx < len(organs): files.append(("organs", (None, organs[idx])))
\* (i counts from 0 as in the code; sequences here count from 1)
OrganParts(org, i) ==
    IF Truthy(org) /\ i < Len(org.v)
    THEN <<[field |-> "organs", value |-> org.v[i + 1]]>>
    ELSE <<>>

\* Variant: the error body is returned without the status code.
ErrorResponse_Status200(S) ==
    [status_code |-> 200, body |-> [error |-> "HTTPStatusError"]]

\* JSONResponse({"error": str(e)}, status_code=e.response.status_code)
ErrorResponse(S) ==
    [status_code |-> S, body |-> [error |-> "HTTPStatusError"]]

\* Variant: the "No match" text is returned as the species.
TopOf_NoMatch(json) ==
    IF Truthy(json.results)
    THEN LET first == json.results.v[1]
             name  == IF first.name.isNone THEN "Unknown" ELSE first.name.v
         IN  [best       |-> Some(name),
              confidence |-> IF first.score.isNone THEN 0 ELSE first.score.v,
              species    |-> name]
    ELSE [best |-> Some("No match"), confidence |-> 0, species |-> "No match"]

\* Lines 63-71: the top prediction of the answer.
TopOf(json) ==
    IF Truthy(json.results)
    THEN LET first == json.results.v[1]
             name  == IF first.name.isNone THEN "Unknown" ELSE first.name.v
         IN  [best       |-> Some(name),
              confidence |-> IF first.score.isNone THEN 0 ELSE first.score.v,
              species    |-> name]
    ELSE [best |-> None, confidence |-> 0, species |-> "No match"]

\* The threshold 0.8, in hundredths.
Threshold == 80

\* Variant: the threshold itself counts as low confidence.
ShouldBoost_Inclusive(conf, key) == conf <= Threshold /\ Truthy(key)

\* if confidence < 0.8 and OPENAI_KEY
ShouldBoost(conf, key) == conf < Threshold /\ Truthy(key)

\* Variant: the stream is not rewound before the second read.
ReadForCaption_NoSeek(content, p) ==
    LET first  == ReadFrom(content, p)
        second == ReadFrom(content, Len(content))
    IN  [raw |-> second, pos |-> Len(content)]

\* Lines 79-84: read() on the exhausted stream, then seek(0) and read().
\* The bytes kept in raw, and the stream's position afterwards.
ReadForCaption(content, p) ==
    LET first  == ReadFrom(content, p)
        second == ReadFrom(content, 0)
    IN  [raw |-> second, pos |-> Len(content)]

\* caption = content.strip() if content is not None else "No caption returned"
CaptionOf(content) == IF content.isNone THEN NoCaption ELSE Strip(content.v)

\* Variant: the newest caption is put first.
AppendCaption_Front(captions, entry) == <<entry>> \o captions

AppendCaption(captions, entry) == Append(captions, entry)

\* Variant: the list is returned as it is.
CaptionsField_AsIs(captions) == Some(captions)

\* boost_captions if boost_captions else None
CaptionsField(captions) == IF Len(captions) > 0 THEN Some(captions) ELSE None

OkResponse(b, c, st, captions) ==
    [status_code |-> 200,
     body |-> [species |-> b, confidence |-> c, status |-> st,
               boost_captions |-> CaptionsField(captions)]]

\* Variant: the loop is left after its first pass.
PayloadReady_AfterFirst == idx >= 1

\* The payload loop has gone through every image.
PayloadReady == idx = Len(images)

\* ---- the request ---------------------------------------------------------
Init ==
    /\ images \in SeqsUpTo(UploadFiles, MinImages, MaxImages)
    /\ organs \in {None} \cup {Some(o) : o \in SeqsUpTo(OrganTags, 0, MaxOrgans)}
    /\ OPENAI_KEY \in KeyValues
    /\ filePos = [i \in DOMAIN images |-> 0]
    /\ pc = "payload"
    /\ idx = 0
    /\ files = <<>>
    /\ r = None
    /\ plantnet_json = None
    /\ best = None
    /\ confidence = 0
    /\ species = None
    /\ boost_captions = <<>>
    /\ status = None
    /\ capIdx = 0
    /\ sent = <<>>
    /\ calls = <<>>
    /\ failure = None
    /\ response = None

Raise(exc) ==
    /\ pc' = "raised"
    /\ failure' = Some(exc)

\* One pass of the payload loop (lines 37-46) for an image PIL can decode.
NormalizeImage ==
    /\ pc = "payload"
    /\ idx < Len(images)
    /\ LET image == images[idx + 1]
           raw   == ReadFrom(image.content, filePos[idx + 1])
       IN  /\ filePos' = [filePos EXCEPT ![idx + 1] = Len(image.content)]
           /\ files' = files \o <<ImagePart(image, raw)>> \o OrganParts(organs, idx)
           /\ calls' = Append(calls, [op |-> "normalize", image |-> idx])
    /\ idx' = idx + 1
    /\ UNCHANGED <<images, organs, OPENAI_KEY, pc, r, plantnet_json, best,
                   confidence, species, boost_captions, status, capIdx, sent,
                   failure, response>>

\* One pass of the payload loop in which Image.open raises: nothing catches
\* the exception, it leaves the handler.
NormalizeRaises ==
    /\ pc = "payload"
    /\ idx < Len(images)
    /\ filePos' = [filePos EXCEPT ![idx + 1] = Len(images[idx + 1].content)]
    /\ Raise([type |-> "UnidentifiedImageError", image |-> idx])
    /\ UNCHANGED <<images, organs, OPENAI_KEY, idx, files, r, plantnet_json, best,
                   confidence, species, boost_captions, status, capIdx, sent,
                   calls, response>>

\* Lines 54-58: the post succeeds and its body is decoded.
PostSucceeds ==
    /\ pc = "payload"
    /\ PayloadReady
    /\ r' = Some([status_code |-> 200])
    /\ \E json \in PlantNetAnswers : plantnet_json' = Some(json)
    /\ calls' = Append(calls, [op |-> "plantnet", image |-> -1])
    /\ pc' = "extract"
    /\ UNCHANGED <<images, organs, OPENAI_KEY, filePos, idx, files, best,
                   confidence, species, boost_captions, status, capIdx, sent,
                   failure, response>>

\* Lines 59-60: raise_for_status raises HTTPStatusError, the handler returns
\* the error response.
PostHttpStatusError ==
    /\ pc = "payload"
    /\ PayloadReady
    /\ \E S \in ErrorStatuses :
            /\ r' = Some([status_code |-> S])
            /\ response' = Some(ErrorResponse(S))
    /\ calls' = Append(calls, [op |-> "plantnet", image |-> -1])
    /\ pc' = "returned"
    /\ UNCHANGED <<images, organs, OPENAI_KEY, filePos, idx, files,
                   plantnet_json, best, confidence, species, boost_captions,
                   status, capIdx, sent, failure>>

\* The post raises something else (timeout, connection error, a body that is
\* not JSON): only HTTPStatusError is caught.
PostRaises ==
    /\ pc = "payload"
    /\ PayloadReady
    /\ calls' = Append(calls, [op |-> "plantnet", image |-> -1])
    /\ \/ /\ r' = r
          /\ Raise([type |-> "TransportError", image |-> -1])
       \/ /\ r' = Some([status_code |-> 200])
          /\ Raise([type |-> "JSONDecodeError", image |-> -1])
    /\ UNCHANGED <<images, organs, OPENAI_KEY, filePos, idx, files,
                   plantnet_json, best, confidence, species, boost_captions,
                   status, capIdx, sent, response>>

\* Lines 63-71.
ExtractTop ==
    /\ pc = "extract"
    /\ LET top == TopOf(plantnet_json.v)
       IN  /\ best' = top.best
           /\ confidence' = top.confidence
           /\ species' = Some(top.species)
    /\ pc' = "gate"
    /\ UNCHANGED <<images, organs, OPENAI_KEY, filePos, idx, files, r,
                   plantnet_json, boost_captions, status, capIdx, sent, calls,
                   failure, response>>

\* Lines 74-77.
Gate ==
    /\ pc = "gate"
    /\ boost_captions' = <<>>
    /\ calls' = Append(calls, [op |-> "gate", image |-> -1])
    /\ IF ShouldBoost(confidence, OPENAI_KEY)
       THEN status' = Some("boosted") /\ pc' = "caption"
       ELSE status' = Some("plantnet_only") /\ pc' = "return"
    /\ UNCHANGED <<images, organs, OPENAI_KEY, filePos, idx, files, r,
                   plantnet_json, best, confidence, species, capIdx, sent,
                   failure, response>>

CaptionRequest(i) ==
    LET rd == ReadForCaption(images[i + 1].content, filePos[i + 1])
    IN  [image |-> i, data_uri |-> DataUri(rd.raw), max_tokens |-> 300]

\* One pass of the captioning loop (lines 78-102) whose call returns a choice.
CaptionImage ==
    /\ pc = "caption"
    /\ capIdx < Len(images)
    /\ LET image == images[capIdx + 1]
           rd    == ReadForCaption(image.content, filePos[capIdx + 1])
       IN  /\ filePos' = [filePos EXCEPT ![capIdx + 1] = rd.pos]
           /\ sent' = Append(sent, CaptionRequest(capIdx))
           /\ calls' = Append(calls, [op |-> "caption", image |-> capIdx])
           /\ \E content \in CaptionContents :
                boost_captions' =
                    AppendCaption(boost_captions,
                                  [filename |-> image.filename,
                                   caption  |-> CaptionOf(content)])
    /\ capIdx' = capIdx + 1
    /\ UNCHANGED <<images, organs, OPENAI_KEY, pc, idx, files, r, plantnet_json,
                   best, confidence, species, status, failure, response>>

\* One pass of the captioning loop whose call raises (API error, timeout) or
\* whose answer has no choices (IndexError): nothing catches the exception.
CaptionRaises ==
    /\ pc = "caption"
    /\ capIdx < Len(images)
    /\ filePos' = [filePos EXCEPT ![capIdx + 1] =
                      ReadForCaption(images[capIdx + 1].content, filePos[capIdx + 1]).pos]
    /\ sent' = Append(sent, CaptionRequest(capIdx))
    /\ calls' = Append(calls, [op |-> "caption", image |-> capIdx])
    /\ \E type \in {"APIError", "IndexError"} :
            Raise([type |-> type, image |-> capIdx])
    /\ UNCHANGED <<images, organs, OPENAI_KEY, idx, files, r, plantnet_json, best,
                   confidence, species, boost_captions, status, capIdx,
                   response>>

\* Lines 104-109.
Return ==
    /\ \/ pc = "return"
       \/ pc = "caption" /\ capIdx = Len(images)
    /\ response' = Some(OkResponse(best, confidence, status.v, boost_captions))
    /\ pc' = "returned"
    /\ UNCHANGED <<images, organs, OPENAI_KEY, filePos, idx, files, r,
                   plantnet_json, best, confidence, species, boost_captions,
                   status, capIdx, sent, calls, failure>>

Next ==
    \/ NormalizeImage
    \/ NormalizeRaises
    \/ PostSucceeds
    \/ PostHttpStatusError
    \/ PostRaises
    \/ ExtractTop
    \/ Gate
    \/ CaptionImage
    \/ CaptionRaises
    \/ Return

Spec == Init /\ [][Next]_vars

\* ---- properties ----------------------------------------------------------
Returned == pc = "returned" /\ ~response.isNone
ReturnedOk == Returned /\ response.v.status_code = 200
Body == response.v.body
KeyConfigured == (~OPENAI_KEY.isNone) /\ OPENAI_KEY.v # <<>>
NoResults == (~plantnet_json.isNone)
             /\ (plantnet_json.v.results.isNone \/ plantnet_json.v.results.v = <<>>)

\* Positions in calls of the entries with operation op for image i.
CallsOf(op, i) == {k \in DOMAIN calls : calls[k].op = op /\ calls[k].image = i}
ImageIndexes == 0 .. (Len(images) - 1)

\* What the captioning service reads out of a base64 text.
B64Index(c) == CHOOSE n \in 0..63 : B64Char(n) = c

RECURSIVE B64Decode(_)
B64Decode(t) ==
    IF Len(t) < 4 THEN <<>>
    ELSE LET n1 == B64Index(t[1])
             n2 == B64Index(t[2])
             b1 == n1 * 4 + n2 \div 16
             rest == B64Decode(SubSeq(t, 5, Len(t)))
         IN  IF t[3] = "=" THEN <<b1>>
             ELSE LET n3 == B64Index(t[3])
                      b2 == (n2 % 16) * 16 + n3 \div 4
                  IN  IF t[4] = "=" THEN <<b1, b2>>
                      ELSE <<b1, b2, (n3 % 4) * 64 + B64Index(t[4])>> \o rest

\* C1: in every successful response, status is "boosted" exactly when the
\* returned confidence is strictly below 0.8 and the captioning key is
\* configured, and "plantnet_only" in every other case.
C1_StatusIffLowConfidenceAndKey ==
    ReturnedOk =>
        /\ Body.status = "boosted" <=> (Body.confidence < 80 /\ KeyConfigured)
        /\ Body.status # "boosted" => Body.status = "plantnet_only"

\* A response at confidence exactly 0.8 with the key configured.
C1_Witness ==
    ReturnedOk /\ Body.confidence = 80 /\ KeyConfigured
    /\ Body.status = "plantnet_only"

C3_PrimaryErrorPropagates ==
    ((~r.isNone) /\ r.v.status_code \in ErrorStatuses) =>
        /\ Returned
        /\ response.v.status_code = r.v.status_code
        /\ DOMAIN Body = {"error"}
        /\ sent = <<>>
        /\ \A k \in DOMAIN calls : calls[k].op # "caption"

C3_Witness ==
    Returned /\ (~r.isNone) /\ r.v.status_code = 403 /\ KeyConfigured
    /\ response.v.status_code = 403

\* C4: a captioning call that fails for one image never makes the request
\* fail.
C4_CaptionFailureContained ==
    ~(pc = "raised" /\ (~failure.isNone)
      /\ failure.v.type \in {"APIError", "IndexError"})

\* C5: an image that cannot be decoded does not end the request before the
\* call to PlantNet.
C5_DecodeFailureContained ==
    ~(pc = "raised" /\ (~failure.isNone)
      /\ failure.v.type = "UnidentifiedImageError"
      /\ Len(images) >= 2
      /\ \A k \in DOMAIN calls : calls[k].op # "plantnet")

\* C6: a successful response to an answer without results has species null
\* and confidence 0.0; with the key configured it is "boosted" and every
\* image was sent for captioning, without the key it is "plantnet_only" with
\* boost_captions null.
C6_NoResults ==
    (ReturnedOk /\ NoResults) =>
        /\ Body.species.isNone
        /\ Body.confidence = 0
        /\ KeyConfigured =>
                (Body.status = "boosted" /\ Len(sent) = Len(images))
        /\ ~KeyConfigured =>
                (Body.status = "plantnet_only" /\ Body.boost_captions.isNone
                 /\ sent = <<>>)

C6_Witness ==
    ReturnedOk /\ NoResults /\ plantnet_json.v.results = Some(<<>>)
    /\ KeyConfigured /\ Body.status = "boosted"

\* C7: when the captioning loop has gone through all n images, boost_captions
\* has n entries and entry i carries the filename of image i.
C7_CaptionOrder ==
    /\ Len(boost_captions) = capIdx
    /\ \A i \in 1..Len(boost_captions) :
            boost_captions[i].filename = images[i].filename
    /\ (ReturnedOk /\ Body.status = "boosted") =>
            /\ ~Body.boost_captions.isNone
            /\ Len(Body.boost_captions.v) = Len(images)
            /\ \A i \in 1..Len(images) :
                    Body.boost_captions.v[i].filename = images[i].filename

C7_Witness ==
    ReturnedOk /\ Body.status = "boosted" /\ Len(images) >= 2
    /\ images[1].filename # images[2].filename
    /\ Len(Body.boost_captions.v) = Len(images)

\* The position in files of the part of image i (from 0).
PartOfImage(i) ==
    CHOOSE k \in DOMAIN files :
        /\ files[k].field = "images"
        /\ Cardinality({j \in 1..(k - 1) : files[j].field = "images"}) = i

OrganFields == {k \in DOMAIN files : files[k].field = "organs"}
TagCount == IF organs.isNone THEN 0 ELSE Len(organs.v)
Min(a, b) == IF a < b THEN a ELSE b

\* C8: in the payload, the part of image i is directly followed by one organ
\* field with value organs[i] when i is below the number of tags, and by no
\* organ field otherwise; there are min(images, tags) organ fields.
C8_OrganAlignment ==
    /\ Cardinality({k \in DOMAIN files : files[k].field = "images"}) = idx
    /\ \A i \in 0..(idx - 1) :
        LET k == PartOfImage(i)
        IN  /\ files[k].filename = images[i + 1].filename
            /\ IF i < TagCount
               THEN /\ k + 1 \in OrganFields
                    /\ files[k + 1].value = organs.v[i + 1]
                    /\ (k + 2 \in DOMAIN files => files[k + 2].field = "images")
               ELSE k + 1 \notin OrganFields
    /\ Cardinality(OrganFields) = Min(idx, TagCount)

C8_Witness ==
    /\ PayloadReady /\ ~organs.isNone
    /\ Len(images) = 2 /\ Len(organs.v) = 1
    /\ Len(files) = 3 /\ files[2].field = "organs" /\ files[3].field = "images"

\* C9: every image is normalized, once, before the call to PlantNet; that
\* call is made at most once; the gate is evaluated at most once, after a
\* successful answer, and exactly once in a successful response; captioning
\* calls come after the gate, only when it chose "boosted", at most one per
\* image.
C9_CallOrder ==
    /\ \A i \in ImageIndexes : Cardinality(CallsOf("normalize", i)) <= 1
    /\ Cardinality(CallsOf("plantnet", -1)) <= 1
    /\ \A p \in CallsOf("plantnet", -1) :
            \A i \in ImageIndexes : \E k \in CallsOf("normalize", i) : k < p
    /\ Cardinality(CallsOf("gate", -1)) <= 1
    /\ \A g \in CallsOf("gate", -1) :
            /\ \E p \in CallsOf("plantnet", -1) : p < g
            /\ (~r.isNone) /\ r.v.status_code = 200
    /\ ReturnedOk => Cardinality(CallsOf("gate", -1)) = 1
    /\ \A i \in ImageIndexes :
            /\ Cardinality(CallsOf("caption", i)) <= 1
            /\ \A c \in CallsOf("caption", i) :
                    /\ \E g \in CallsOf("gate", -1) : g < c
                    /\ status = Some("boosted")
    /\ Len(sent) = Cardinality({k \in DOMAIN calls : calls[k].op = "caption"})

C9_Witness ==
    ReturnedOk /\ Body.status = "boosted" /\ Len(images) >= 2
    /\ Len(calls) = 2 * Len(images) + 2

\* C10: what is sent for an image to the captioning service decodes to the
\* complete bytes of the upload.
C10_OriginalBytesSent ==
    \A k \in DOMAIN sent :
        /\ B64Decode(sent[k].data_uri.b64) = images[sent[k].image + 1].content
        /\ sent[k].data_uri.b64 = b64encode(images[sent[k].image + 1].content)

C10_Witness ==
    /\ Len(sent) >= 2
    /\ Len(images[1].content) = 2
    /\ Len(images[2].content) = 3
    /\ \A i \in DOMAIN images : filePos[i] = Len(images[i].content)

====
